---------------------------- MODULE Spec2Model ----------------------------
(***************************************************************************)
(* A model of ts_aos_analysis:                                             *)
(*   blockUtils.py   add_property, build_configuration_schema              *)
(*   butlerUtils.py  get_task_metadata, get_timing_from_metadata           *)
(*                                                                         *)
(* Python values are modelled as follows.                                  *)
(*   str            a TLA+ string                                          *)
(*   dict           a function whose DOMAIN is the set of keys ("k in d"   *)
(*                  is k \in DOMAIN d); a dict whose iteration order is    *)
(*                  read by the code is a sequence of <<key, value>> pairs *)
(*                  with distinct keys, in insertion order                 *)
(*   list           a sequence                                             *)
(*   formatted obj  a tagged record [t |-> "int", i |-> 30] and so on,     *)
(*                  turned into text by PyStr as str() does                *)
(*   text           schema text is the sequence of its lines, each line    *)
(*                  the exact characters before its "\n": every f-string   *)
(*                  the code appends ends in one "\n", and the names and   *)
(*                  values drawn here hold no line break                   *)
(*   exception      the call's `raised` is the exception's name and no     *)
(*                  value is returned (ret = <<>>)                         *)
(***************************************************************************)
EXTENDS Integers, Sequences, FiniteSets, TLC

VARIABLES
    pc,                    \* position of the running call
    raised,                \* "none", or the name of the exception that ended the call
    ret,                   \* <<>> while nothing is returned, else <<returned value>>
    \* add_property, called directly
    prop_name, prop_details, indent_level,
    \* build_configuration_schema
    block_number, properties, configuration_schema, prop_idx,
    \* get_timing_from_metadata
    task_md, jobs, first_job, last_job, longest_job,
    start_list, stop_list, duration, task_idx, rec_idx, stdout,
    \* get_task_metadata
    task_list, visit_list, detector_list, md, task_md_acc,
    t_idx, v_idx, d_idx, fetches

schemaVars == <<prop_name, prop_details, indent_level,
                block_number, properties, configuration_schema, prop_idx>>
timingVars == <<task_md, jobs, first_job, last_job, longest_job,
                start_list, stop_list, duration, task_idx, rec_idx, stdout>>
fetchVars  == <<task_list, visit_list, detector_list, md, task_md_acc,
                t_idx, v_idx, d_idx, fetches>>
vars == <<pc, raised, ret, schemaVars, timingVars, fetchVars>>

---------------------------------------------------------------------------
(* Bounds of the model *)

MaxProps  == 2      \* entries of one properties mapping
MaxDepth  == 1      \* levels of nested properties below a mapping
MaxIndent == 2      \* indent_level of a direct add_property call
MaxRecs   == 2      \* metadata records of one task
MaxTasks  == 3      \* tasks of one metadata mapping
MaxList   == 2      \* length of task_list, visit_list, detector_list

---------------------------------------------------------------------------
(* Python helpers *)

RECURSIVE Repeat(_, _)
\* s * n for a str s
Repeat(s, n) == IF n <= 0 THEN "" ELSE s \o Repeat(s, n - 1)

\* str(x), as an f-string field formats x
PyStr(x) ==
    CASE x.t = "str"  -> x.s
      [] x.t = "int"  -> ToString(x.i)
      [] x.t = "bool" -> IF x.b THEN "True" ELSE "False"

\* what a call hands back: a value, or an exception
Return(v)  == [raised |-> "none", value |-> <<v>>]
Raise(exc) == [raised |-> exc, value |-> <<>>]

---------------------------------------------------------------------------
(* blockUtils.py : add_property *)

\* the double quotes put around a string-typed default
quoted_default(details) ==
    "\"" \o PyStr(details["default"]) \o "\""

\* a variant of default_value that never quotes
default_value_unquoted(details) == PyStr(details["default"])

\* the text after "default: "
default_value(details) ==
    IF details["type"] = "string"
    THEN quoted_default(details)
    ELSE PyStr(details["default"])

\* the default line, if the descriptor has a default
default_lines(indent, details) ==
    IF "default" \in DOMAIN details
    THEN << indent \o "  default: " \o default_value(details) >>
    ELSE << >>

\* whether the items block is serialized
items_emitted(details) ==
    details["type"] = "array" /\ "items" \in DOMAIN details

\* a variant of items_lines that writes the item's description as well
items_lines_described(indent, item_details) ==
    IF "type" \notin DOMAIN item_details
    THEN Raise("KeyError")
    ELSE Return(
           << indent \o "  items:" >>
           \o (IF "description" \in DOMAIN item_details
               THEN << indent \o "    description: " \o item_details["description"] >>
               ELSE << >>)
           \o << indent \o "    type: " \o item_details["type"] >>
           \o (IF "minimum" \in DOMAIN item_details
               THEN << indent \o "    minimum: " \o PyStr(item_details["minimum"]) >>
               ELSE << >>)
           \o (IF "maximum" \in DOMAIN item_details
               THEN << indent \o "    maximum: " \o PyStr(item_details["maximum"]) >>
               ELSE << >>))

\* the items block of an array: its type, then minimum and maximum if present
items_lines(indent, item_details) ==
    IF "type" \notin DOMAIN item_details
    THEN Raise("KeyError")
    ELSE Return(
           << indent \o "  items:",
              indent \o "    type: " \o item_details["type"] >>
           \o (IF "minimum" \in DOMAIN item_details
               THEN << indent \o "    minimum: " \o PyStr(item_details["minimum"]) >>
               ELSE << >>)
           \o (IF "maximum" \in DOMAIN item_details
               THEN << indent \o "    maximum: " \o PyStr(item_details["maximum"]) >>
               ELSE << >>))

\* a variant of nested_indent_level that goes one level deeper only
nested_indent_level_by_one(level) == level + 1

\* the indent level of a nested property
nested_indent_level(level) == level + 2

RECURSIVE add_property(_, _, _)
RECURSIVE nested_properties(_, _, _, _)

\* a variant of nested_properties that leaves out an entry that raises
nested_properties_lenient(props, i, level, acc) ==
    IF i > Len(props)
    THEN Return(acc)
    ELSE LET r == add_property(props[i][1], props[i][2], nested_indent_level(level))
         IN  nested_properties(props, i + 1, level,
                               IF r.raised # "none" THEN acc ELSE acc \o r.value[1])

\* the loop over prop_details["properties"].items(), from entry i on, appending to acc
nested_properties(props, i, level, acc) ==
    IF i > Len(props)
    THEN Return(acc)
    ELSE LET r == add_property(props[i][1], props[i][2], nested_indent_level(level))
         IN  IF r.raised # "none"
             THEN r
             ELSE nested_properties(props, i + 1, level, acc \o r.value[1])

add_property(name, details, level) ==
    LET indent == Repeat("  ", level)
        l42    == << indent \o name \o ":" >>
    IN  IF "description" \notin DOMAIN details THEN Raise("KeyError")
        ELSE IF "type" \notin DOMAIN details THEN Raise("KeyError")
        ELSE
          LET l44 == l42 \o << indent \o "  description: " \o details["description"],
                               indent \o "  type: " \o details["type"] >>
              l51 == l44 \o default_lines(indent, details)
              it  == IF items_emitted(details)
                     THEN items_lines(indent, details["items"])
                     ELSE Return(<< >>)
          IN  IF it.raised # "none" THEN it
              ELSE
                LET l62 == l51 \o it.value[1]
                IN  IF details["type"] = "object" /\ "properties" \in DOMAIN details
                    THEN nested_properties(details["properties"], 1, level,
                                           l62 \o << indent \o "  properties:" >>)
                    ELSE Return(l62)

---------------------------------------------------------------------------
(* blockUtils.py : build_configuration_schema *)

\* a variant of base_schema whose description line has the title's wording
base_schema_retitled(b) ==
    << "$schema: http://json-schema.org/draft-07/schema#",
       "title: BLOCK-" \o ToString(b) \o " configuration",
       "description: BLOCK-" \o ToString(b) \o " configuration",
       "type: object",
       "properties:" >>

\* the base schema with the BLOCK number
base_schema(b) ==
    << "$schema: http://json-schema.org/draft-07/schema#",
       "title: BLOCK-" \o ToString(b) \o " configuration",
       "description: Configuration for BLOCK-" \o ToString(b) \o ".",
       "type: object",
       "properties:" >>

\* indent_level's default value
default_indent_level == 1

---------------------------------------------------------------------------
(* The descriptors the calls are given *)

\* a dict with the one entry key: val if present, else the empty dict
Opt(present, key, val) == IF present THEN key :> val ELSE << >>

PyInt(n)  == [t |-> "int", i |-> n]
PyText(s) == [t |-> "str", s |-> s]
PyBool(b) == [t |-> "bool", b |-> b]

Types    == {"string", "number", "array", "object"}
Defaults == {PyText("abc"), PyInt(30), PyBool(TRUE)}
ItemDescription == "Offset of one element"

\* descriptors without items and properties: description, type and default each
\* present or absent
ScalarLeaves ==
    { Opt(hd, "description", "Exposure time in seconds")
        @@ Opt(ty # "", "type", ty)
        @@ Opt(df # PyText(""), "default", df) :
      hd \in BOOLEAN, ty \in Types \cup {""}, df \in Defaults \cup {PyText("")} }

\* items blocks: type, minimum, maximum and description each present or absent
ItemBlocks ==
    { Opt(ht, "type", "number")
        @@ Opt(hmin, "minimum", PyInt(0))
        @@ Opt(hmax, "maximum", PyInt(10))
        @@ Opt(hd, "description", ItemDescription) :
      ht \in BOOLEAN, hmin \in BOOLEAN, hmax \in BOOLEAN, hd \in BOOLEAN }

\* descriptors with an items block, of type array or not
ArrayLeaves ==
    { [description |-> "Offsets in arcsec", type |-> ty, items |-> it]
        @@ Opt(hdf, "default", PyInt(30)) :
      ty \in {"array", "number"}, it \in ItemBlocks, hdf \in BOOLEAN }

Leaves == ScalarLeaves \cup ArrayLeaves

\* the descriptors placed inside a properties mapping, taken in turn
GoodLeaves ==
    << [description |-> "Filter name", type |-> "string", default |-> PyText("r")],
       [description |-> "Offsets in arcsec", type |-> "array",
        items |-> [type |-> "number", minimum |-> PyInt(0), description |-> ItemDescription]] >>

\* descriptors that break the precondition: no type, no description
BadLeaves ==
    { [description |-> "No type given"],
      [type |-> "number"] }

PropNames == << "exposure_time", "filter", "offsets", "rotation" >>

Group(m) == [description |-> "Nested group", type |-> "object", properties |-> m]

\* the mapping of the first names to the descriptors ds, in order
Named(names, ds) == [i \in 1..Len(ds) |-> << names[i], ds[i] >>]

RECURSIVE Tuples(_, _)
\* the sequences of length n over S
Tuples(S, n) ==
    IF n = 0 THEN { << >> }
    ELSE { Append(t, x) : t \in Tuples(S, n - 1), x \in S }

RECURSIVE TuplesUpTo(_, _)
\* the sequences over S of length up to n
TuplesUpTo(S, n) ==
    IF n = 0 THEN { << >> } ELSE TuplesUpTo(S, n - 1) \cup Tuples(S, n)

RECURSIVE DescTuples(_)
\* the descriptors of a properties mapping of up to MaxProps entries, with up to d
\* levels of nested properties below it: GoodLeaves in turn, and at most one entry,
\* at any position, that is a nested group or one of BadLeaves
DescTuples(d) ==
    LET good    == { [i \in 1..n |-> GoodLeaves[((i - 1) % Len(GoodLeaves)) + 1]] :
                       n \in 0..MaxProps }
        groups  == IF d = 0 THEN {}
                   ELSE { Group(Named(PropNames, m)) : m \in DescTuples(d - 1) }
        special == BadLeaves \cup groups
    IN  good \cup { IF k <= Len(t) THEN [t EXCEPT ![k] = x] ELSE t :
                       t \in good, k \in 1..MaxProps, x \in special }

Reversed(s) == [i \in 1..Len(s) |-> s[Len(s) + 1 - i]]

\* the mappings given to a call: the names in either order
Mappings ==
    { Named(names, t) : names \in {PropNames, Reversed(PropNames)},
                        t \in DescTuples(MaxDepth) }

\* the descriptors given to a direct add_property call: the leaves, and descriptors
\* with a properties mapping, of type object or not
Descriptors ==
    Leaves \cup { [description |-> "Nested group", type |-> ty, properties |-> m] :
                    ty \in {"object", "string"}, m \in Mappings }

BlockNumbers == {7, -12}
IndentLevels == 0..MaxIndent

---------------------------------------------------------------------------
(* butlerUtils.py : get_timing_from_metadata *)

(* Times are ISO strings "YYYY-MM-DDTHH:MM:SS.ffffff+00:00", as the pipeline
   executor writes them.  min and max compare them as Python compares str:
   character by character, by code point.  Time(s).mjd is held exactly, as
   whole days and milliseconds of the day (the times drawn are multiples of
   a millisecond), and a duration in milliseconds: the rounding of the
   float arithmetic is left out. *)

suffix == "Utc"

\* the characters of a time string, in code point order
Alphabet == "+-.0123456789:T"
CodePoint(c) == CHOOSE i \in 1..Len(Alphabet) : SubSeq(Alphabet, i, i) = c

RECURSIVE StrLessFrom(_, _, _)
StrLessFrom(a, b, i) ==
    IF i > Len(b) THEN FALSE
    ELSE IF i > Len(a) THEN TRUE
    ELSE IF SubSeq(a, i, i) = SubSeq(b, i, i) THEN StrLessFrom(a, b, i + 1)
    ELSE CodePoint(SubSeq(a, i, i)) < CodePoint(SubSeq(b, i, i))

\* a < b for two str
StrLess(a, b) == StrLessFrom(a, b, 1)

RECURSIVE py_min_from(_, _, _)
py_min_from(xs, i, m) ==
    IF i > Len(xs) THEN m
    ELSE py_min_from(xs, i + 1, IF StrLess(xs[i], m) THEN xs[i] ELSE m)

RECURSIVE py_max_from(_, _, _)
py_max_from(xs, i, m) ==
    IF i > Len(xs) THEN m
    ELSE py_max_from(xs, i + 1, IF StrLess(m, xs[i]) THEN xs[i] ELSE m)

\* min(xs) and max(xs) of a non-empty list of str
py_min(xs) == py_min_from(xs, 2, xs[1])
py_max(xs) == py_max_from(xs, 2, xs[1])

RECURSIVE py_max_number_from(_, _, _)
py_max_number_from(xs, i, m) ==
    IF i > Len(xs) THEN m
    ELSE py_max_number_from(xs, i + 1, IF xs[i] > m THEN xs[i] ELSE m)

\* max(xs) of a non-empty list of numbers
py_max_number(xs) == py_max_number_from(xs, 2, xs[1])

RECURSIVE ParseInt(_)
\* int(s) for a str of digits
ParseInt(s) ==
    IF Len(s) = 0 THEN 0
    ELSE 10 * ParseInt(SubSeq(s, 1, Len(s) - 1))
         + (CodePoint(SubSeq(s, Len(s), Len(s))) - CodePoint("0"))

\* days from 1970-01-01 to the civil date y-m-d
DaysFromCivil(y, m, d) ==
    LET yy  == IF m <= 2 THEN y - 1 ELSE y
        era == yy \div 400
        yoe == yy - era * 400
        doy == (153 * (IF m > 2 THEN m - 3 ELSE m + 9) + 2) \div 5 + d - 1
        doe == yoe * 365 + yoe \div 4 - yoe \div 100 + doy
    IN  era * 146097 + doe - 719468

\* Time(s).mjd for s = "YYYY-MM-DDTHH:MM:SS.ffffff"
Mjd(s) ==
    [ day |-> DaysFromCivil(ParseInt(SubSeq(s, 1, 4)), ParseInt(SubSeq(s, 6, 7)),
                            ParseInt(SubSeq(s, 9, 10))) + 40587,
      ms  |-> (ParseInt(SubSeq(s, 12, 13)) * 3600 + ParseInt(SubSeq(s, 15, 16)) * 60
               + ParseInt(SubSeq(s, 18, 19))) * 1000
              + ParseInt(SubSeq(s, 21, 26)) \div 1000 ]

\* s[:-6]
strip_offset(s) == SubSeq(s, 1, Len(s) - 6)

\* (Time(stop[:-6]).mjd - Time(start[:-6]).mjd) * 86400, in milliseconds
job_duration(start, stop) ==
    LET a == Mjd(strip_offset(start))
        b == Mjd(strip_offset(stop))
    IN  (b.day - a.day) * 86400000 + (b.ms - a.ms)

\* a variant of convention that looks for the arrays it reads under Convention A
convention_by_prep(arrs) ==
    IF "prepUtc" \in DOMAIN arrs THEN "A"
    ELSE IF "runQuantumStartCpuTime" \in DOMAIN arrs THEN "B"
    ELSE "skip"

\* a variant of convention that looks for the arrays it reads under Convention B
convention_by_run_quantum_start(arrs) ==
    IF "startUtc" \in DOMAIN arrs THEN "A"
    ELSE IF "runQuantumStartUtc" \in DOMAIN arrs THEN "B"
    ELSE "skip"

\* which arrays a record's times are read from: "A", "B", or "skip"
convention(arrs) ==
    IF "startUtc" \in DOMAIN arrs THEN "A"
    ELSE IF "runQuantumStartCpuTime" \in DOMAIN arrs THEN "B"
    ELSE "skip"

job_start(arrs) ==
    IF convention(arrs) = "A"
    THEN py_min(arrs["prep" \o suffix])
    ELSE py_min(arrs["runQuantumStart" \o suffix])

job_stop(arrs) ==
    IF convention(arrs) = "A"
    THEN py_max(arrs["end" \o suffix])
    ELSE py_max(arrs["runQuantumEnd" \o suffix])

\* list(v.metadata.keys())[0]
first_key(v) == v.metadata[1]

\* a variant of earliest that takes the first start
earliest_first(starts) == starts[1]

\* the three values kept when a task's records are done
earliest(starts)   == py_min(starts)
latest(stops)      == py_max(stops)
longest(durations) == py_max_number(durations)

---------------------------------------------------------------------------
(* The metadata get_timing_from_metadata is given *)

T1 == "2024-02-29T23:59:50.250000+00:00"
T2 == "2024-03-01T00:00:05.000000+00:00"
T3 == "2024-03-01T00:01:00.500000+00:00"
T4 == "2024-03-01T10:00:00.000000+00:00"

TaskMetadata(label, arrs) ==
    [quantum |-> [arrays |-> arrs], metadata |-> << label, "quantum" >>]

\* the arrays are lists of times; those of CPU times, which the code never
\* reads, are written as text too
RecA1 == TaskMetadata("isr",
            [startUtc |-> << T2 >>, prepUtc |-> << T2, T1 >>, endUtc |-> << T2, T3 >>])
RecA2 == TaskMetadata("characterizeImage",
            [startUtc |-> << T3 >>, prepUtc |-> << T2 >>, endUtc |-> << T4 >>])
RecB1 == TaskMetadata("calcZernikesTask",
            [runQuantumStartCpuTime |-> << "12.5" >>,
             runQuantumStartUtc |-> << T3 >>, runQuantumEndUtc |-> << T3, T4 >>])
RecANames == TaskMetadata("generateDonutCatalog",
            [prepUtc |-> << T1 >>, endUtc |-> << T4 >>])
RecBNames == TaskMetadata("cutOutDonuts",
            [runQuantumStartUtc |-> << T1 >>, runQuantumEndUtc |-> << T2 >>])
RecNoop == TaskMetadata("intra", << >>)
RecBoth == TaskMetadata("aggregateZernikes",
            [startUtc |-> << T3 >>, prepUtc |-> << T3 >>, endUtc |-> << T3 >>,
             runQuantumStartCpuTime |-> << "3.25" >>,
             runQuantumStartUtc |-> << T1 >>, runQuantumEndUtc |-> << T4 >>])

Records == {RecA1, RecA2, RecB1, RecANames, RecBNames, RecNoop, RecBoth}

TaskNames == << "isr", "calcZernikesTask", "aggregateZernikes", "cutOutDonuts" >>

RecordLists == TuplesUpTo(Records, MaxRecs)
OtherLists  == { << >>, << RecNoop, RecB1 >> }

\* the mappings of up to MaxTasks tasks: one task's records are any of
\* RecordLists, those of the other tasks are among OtherLists
RECURSIVE TaskMdsUpTo(_)
TaskMdsUpTo(n) ==
    IF n = 0 THEN { << >> }
    ELSE TaskMdsUpTo(n - 1) \cup
         { [i \in 1..n |-> << TaskNames[i], IF i = f THEN l ELSE o[i] >>] :
             f \in 1..n, l \in RecordLists, o \in [1..n -> OtherLists] }

TaskMds == TaskMdsUpTo(MaxTasks)

---------------------------------------------------------------------------
(* The state before any call *)

Init ==
    /\ pc = "idle" /\ raised = "none" /\ ret = << >>
    /\ prop_name = "" /\ prop_details = << >> /\ indent_level = 0
    /\ block_number = 0 /\ properties = << >>
    /\ configuration_schema = << >> /\ prop_idx = 0
    /\ task_md = << >> /\ jobs = << >>
    /\ first_job = << >> /\ last_job = << >> /\ longest_job = << >>
    /\ start_list = << >> /\ stop_list = << >> /\ duration = << >>
    /\ task_idx = 0 /\ rec_idx = 0 /\ stdout = << >>
    /\ task_list = << >> /\ visit_list = << >> /\ detector_list = << >>
    /\ md = << >> /\ task_md_acc = << >>
    /\ t_idx = 0 /\ v_idx = 0 /\ d_idx = 0 /\ fetches = << >>

---------------------------------------------------------------------------
(* blockUtils.py : the calls *)

\* a caller runs add_property(name, details, level) to its end
add_property_call ==
    /\ pc = "idle"
    /\ \E name \in {PropNames[1]}, details \in Descriptors, level \in IndentLevels :
         LET r == add_property(name, details, level)
         IN  /\ prop_name' = name
             /\ prop_details' = details
             /\ indent_level' = level
             /\ raised' = r.raised
             /\ ret' = r.value
    /\ pc' = "add_done"
    /\ UNCHANGED <<block_number, properties, configuration_schema, prop_idx,
                   timingVars, fetchVars>>

\* build_configuration_schema is entered: the base schema is built
build_call ==
    /\ pc = "idle"
    /\ \E b \in BlockNumbers, props \in Mappings :
         /\ block_number' = b
         /\ properties' = props
         /\ configuration_schema' = base_schema(b)
    /\ prop_idx' = 1
    /\ pc' = "build_loop"
    /\ UNCHANGED <<raised, ret, prop_name, prop_details, indent_level,
                   timingVars, fetchVars>>

\* one pass of the loop over properties.items()
build_add_property ==
    /\ pc = "build_loop"
    /\ prop_idx <= Len(properties)
    /\ LET r == add_property(properties[prop_idx][1], properties[prop_idx][2],
                             default_indent_level)
       IN  IF r.raised # "none"
           THEN /\ raised' = r.raised
                /\ pc' = "build_done"
                /\ UNCHANGED <<configuration_schema, prop_idx>>
           ELSE /\ configuration_schema' = configuration_schema \o r.value[1]
                /\ prop_idx' = prop_idx + 1
                /\ UNCHANGED <<raised, pc>>
    /\ UNCHANGED <<ret, prop_name, prop_details, indent_level, block_number,
                   properties, timingVars, fetchVars>>

\* the loop is over: the schema is returned
build_return ==
    /\ pc = "build_loop"
    /\ prop_idx > Len(properties)
    /\ ret' = << configuration_schema >>
    /\ pc' = "build_done"
    /\ UNCHANGED <<raised, schemaVars, timingVars, fetchVars>>

NextSchema ==
    \/ add_property_call
    \/ build_call
    \/ build_add_property
    \/ build_return

SpecSchema == Init /\ [][NextSchema]_vars

---------------------------------------------------------------------------
(* butlerUtils.py : get_timing_from_metadata, step by step *)

\* the function is entered with a metadata mapping
timing_call ==
    /\ pc = "idle"
    /\ \E m \in TaskMds : task_md' = m
    /\ jobs' = << >> /\ first_job' = << >> /\ last_job' = << >> /\ longest_job' = << >>
    /\ task_idx' = 1
    /\ pc' = "timing_tasks"
    /\ UNCHANGED <<raised, ret, start_list, stop_list, duration, rec_idx, stdout,
                   schemaVars, fetchVars>>

\* the outer loop takes the next task: print(k, len(vv)) and three empty lists
timing_task_begin ==
    /\ pc = "timing_tasks"
    /\ task_idx <= Len(task_md)
    /\ stdout' = Append(stdout, << task_md[task_idx][1], Len(task_md[task_idx][2]) >>)
    /\ start_list' = << >> /\ stop_list' = << >> /\ duration' = << >>
    /\ rec_idx' = 1
    /\ pc' = "timing_records"
    /\ UNCHANGED <<raised, ret, task_md, jobs, first_job, last_job, longest_job,
                   task_idx, schemaVars, fetchVars>>

\* the inner loop takes the next record of the task
timing_record ==
    /\ pc = "timing_records"
    /\ rec_idx <= Len(task_md[task_idx][2])
    /\ LET v    == task_md[task_idx][2][rec_idx]
           arrs == v["quantum"].arrays
       IN  IF convention(arrs) = "skip"
           THEN UNCHANGED <<jobs, start_list, stop_list, duration>>
           ELSE LET start == job_start(arrs)
                    stop  == job_stop(arrs)
                IN  /\ jobs' = Append(jobs, << first_key(v), start, stop >>)
                    /\ start_list' = Append(start_list, start)
                    /\ stop_list' = Append(stop_list, stop)
                    /\ duration' = Append(duration, job_duration(start, stop))
    /\ rec_idx' = rec_idx + 1
    /\ UNCHANGED <<pc, raised, ret, task_md, first_job, last_job, longest_job,
                   task_idx, stdout, schemaVars, fetchVars>>

\* a variant of timing_task_end that passes over a task without starts
timing_task_end_guarded ==
    /\ pc = "timing_records"
    /\ rec_idx > Len(task_md[task_idx][2])
    /\ IF start_list = << >>
       THEN UNCHANGED <<first_job, last_job, longest_job>>
       ELSE /\ first_job' = Append(first_job, earliest(start_list))
            /\ last_job' = Append(last_job, latest(stop_list))
            /\ longest_job' = Append(longest_job, longest(duration))
    /\ task_idx' = task_idx + 1
    /\ pc' = "timing_tasks"
    /\ UNCHANGED <<raised, ret, task_md, jobs, start_list, stop_list, duration, rec_idx,
                   stdout, schemaVars, fetchVars>>

\* the task's records are done: its earliest start, latest stop and longest
\* duration are kept; min of an empty list raises ValueError
timing_task_end ==
    /\ pc = "timing_records"
    /\ rec_idx > Len(task_md[task_idx][2])
    /\ IF start_list = << >>
       THEN /\ raised' = "ValueError"
            /\ pc' = "timing_done"
            /\ UNCHANGED <<first_job, last_job, longest_job, task_idx>>
       ELSE /\ first_job' = Append(first_job, earliest(start_list))
            /\ last_job' = Append(last_job, latest(stop_list))
            /\ longest_job' = Append(longest_job, longest(duration))
            /\ task_idx' = task_idx + 1
            /\ pc' = "timing_tasks"
            /\ UNCHANGED raised
    /\ UNCHANGED <<ret, task_md, jobs, start_list, stop_list, duration, rec_idx,
                   stdout, schemaVars, fetchVars>>

\* all tasks are done: the four lists are returned
timing_return ==
    /\ pc = "timing_tasks"
    /\ task_idx > Len(task_md)
    /\ ret' = << << jobs, first_job, last_job, longest_job >> >>
    /\ pc' = "timing_done"
    /\ UNCHANGED <<raised, timingVars, schemaVars, fetchVars>>

NextTiming ==
    \/ timing_call
    \/ timing_task_begin
    \/ timing_record
    \/ timing_task_end
    \/ timing_return

SpecTiming == Init /\ [][NextTiming]_vars

---------------------------------------------------------------------------
(* butlerUtils.py : get_task_metadata, one butler.get at a time *)

(* The Butler is outside the repository: opening it and each get either
   succeeds or raises.  What a get returns is the dataset stored under its
   arguments.  fetches is the history of the gets issued, each with its
   arguments and whether it succeeded. *)

ButlerPath == "/repo/LSSTCam"
Collection == "u/aos/wep_run"
FetchTasks == {"isr", "calcZernikesTask"}
Visits     == {4021, 4022}
Detectors  == {191, 192}

\* a variant of butler_get_args that asks for the task's name as it is
butler_get_args_bare(task, visit, detector) ==
    [ datasetType |-> task, exposure |-> visit, visit |-> visit,
      detector |-> detector, collections |-> Collection ]

\* the arguments of butler.get
butler_get_args(task, visit, detector) ==
    [ datasetType |-> task \o "_metadata", exposure |-> visit, visit |-> visit,
      detector |-> detector, collections |-> Collection ]

\* the dataset the butler holds under these arguments
Dataset(args) == [stored |-> args]

\* d[k] = v for a dict d in insertion order
dict_set(d, k, v) ==
    IF \E i \in 1..Len(d) : d[i][1] = k
    THEN [i \in 1..Len(d) |-> IF d[i][1] = k THEN << k, v >> ELSE d[i]]
    ELSE Append(d, << k, v >>)

\* the two inner loops have a (visit, detector) pair left
pair_left == v_idx <= Len(visit_list) /\ Len(detector_list) > 0

\* the function is entered and the Butler opens
fetch_call ==
    /\ pc = "idle"
    /\ \E tl \in TuplesUpTo(FetchTasks, MaxList),
          vl \in TuplesUpTo(Visits, MaxList),
          dl \in TuplesUpTo(Detectors, MaxList) :
         /\ task_list' = tl
         /\ visit_list' = vl
         /\ detector_list' = dl
    /\ md' = << >>
    /\ t_idx' = 1
    /\ pc' = "fetch_tasks"
    /\ UNCHANGED <<raised, ret, task_md_acc, v_idx, d_idx, fetches, schemaVars, timingVars>>

\* the function is entered and Butler(butler_path, collections=collection) raises
fetch_open_fails ==
    /\ pc = "idle"
    /\ raised' = "ButlerOpenError"
    /\ pc' = "fetch_done"
    /\ UNCHANGED <<ret, schemaVars, timingVars, fetchVars>>

\* the outer loop takes the next task
fetch_task_begin ==
    /\ pc = "fetch_tasks"
    /\ t_idx <= Len(task_list)
    /\ task_md_acc' = << >>
    /\ v_idx' = 1 /\ d_idx' = 1
    /\ pc' = "fetch_gets"
    /\ UNCHANGED <<raised, ret, task_list, visit_list, detector_list, md, t_idx,
                   fetches, schemaVars, timingVars>>

\* butler.get returns the dataset, which is appended to the task's list
fetch_get ==
    /\ pc = "fetch_gets"
    /\ pair_left
    /\ LET args == butler_get_args(task_list[t_idx], visit_list[v_idx],
                                   detector_list[d_idx])
       IN  /\ fetches' = Append(fetches, [args |-> args, ok |-> TRUE])
           /\ task_md_acc' = Append(task_md_acc, Dataset(args))
    /\ IF d_idx < Len(detector_list)
       THEN d_idx' = d_idx + 1 /\ UNCHANGED v_idx
       ELSE d_idx' = 1 /\ v_idx' = v_idx + 1
    /\ UNCHANGED <<pc, raised, ret, task_list, visit_list, detector_list, md, t_idx,
                   schemaVars, timingVars>>

\* butler.get raises: the call is over
fetch_get_fails ==
    /\ pc = "fetch_gets"
    /\ pair_left
    /\ LET args == butler_get_args(task_list[t_idx], visit_list[v_idx],
                                   detector_list[d_idx])
       IN  fetches' = Append(fetches, [args |-> args, ok |-> FALSE])
    /\ raised' = "DatasetNotFoundError"
    /\ pc' = "fetch_done"
    /\ UNCHANGED <<ret, task_list, visit_list, detector_list, md, task_md_acc,
                   t_idx, v_idx, d_idx, schemaVars, timingVars>>

\* the task's gets are done: md[task] = task_md
fetch_task_end ==
    /\ pc = "fetch_gets"
    /\ ~pair_left
    /\ md' = dict_set(md, task_list[t_idx], task_md_acc)
    /\ t_idx' = t_idx + 1
    /\ pc' = "fetch_tasks"
    /\ UNCHANGED <<raised, ret, task_list, visit_list, detector_list, task_md_acc,
                   v_idx, d_idx, fetches, schemaVars, timingVars>>

\* all tasks are done: md is returned
fetch_return ==
    /\ pc = "fetch_tasks"
    /\ t_idx > Len(task_list)
    /\ ret' = << md >>
    /\ pc' = "fetch_done"
    /\ UNCHANGED <<raised, fetchVars, schemaVars, timingVars>>

NextFetch ==
    \/ fetch_call
    \/ fetch_open_fails
    \/ fetch_task_begin
    \/ fetch_get
    \/ fetch_get_fails
    \/ fetch_task_end
    \/ fetch_return

SpecFetch == Init /\ [][NextFetch]_vars

---------------------------------------------------------------------------
(* The whole repository: any of its functions may be called *)

Next == NextSchema \/ NextTiming \/ NextFetch

Spec == Init /\ [][Next]_vars

---------------------------------------------------------------------------
(* Reading schema text back *)

RECURSIVE LeadingSpaces(_, _)
\* the number of spaces line starts with, beyond the first n
LeadingSpaces(line, n) ==
    IF n < Len(line) /\ SubSeq(line, n + 1, n + 1) = " "
    THEN LeadingSpaces(line, n + 1)
    ELSE n

IndentOf(line) == LeadingSpaces(line, 0)
BodyOf(line)   == SubSeq(line, IndentOf(line) + 1, Len(line))
StartsWith(s, p) == Len(s) >= Len(p) /\ SubSeq(s, 1, Len(p)) = p
EndsWith(s, p)   == Len(s) >= Len(p) /\ SubSeq(s, Len(s) - Len(p) + 1, Len(s)) = p
Contains(s, p)   == \E i \in 1..(Len(s) - Len(p) + 1) : SubSeq(s, i, i + Len(p) - 1) = p
Spaces(n) == Repeat(" ", n)

RECURSIVE Ascending(_)
\* the members of a finite set of integers, in increasing order
Ascending(S) ==
    IF S = {} THEN << >>
    ELSE LET m == CHOOSE x \in S : \A y \in S : x <= y
         IN  << m >> \o Ascending(S \ {m})

\* the text of the values drawn here, written out
TextOf(x) ==
    CASE x = PyText("abc") -> "abc"
      [] x = PyText("r")   -> "r"
      [] x = PyInt(30)     -> "30"
      [] x = PyInt(0)      -> "0"
      [] x = PyInt(10)     -> "10"
      [] x = PyBool(TRUE)  -> "True"

BlockText(b) == CASE b = 7 -> "7" [] b = -12 -> "-12" [] b = 0 -> "0"

\* a descriptor that supplies description and type, as do its items block's type
\* and the descriptors of its properties, whatever its own type
RECURSIVE WellFormed(_)
WellFormed(d) ==
    /\ {"description", "type"} \subseteq DOMAIN d
    /\ "items" \in DOMAIN d => "type" \in DOMAIN d["items"]
    /\ "properties" \in DOMAIN d =>
         \A i \in 1..Len(d["properties"]) : WellFormed(d["properties"][i][2])

\* a descriptor the serialization reaches lacks description or type
RECURSIVE LacksRequired(_)
LacksRequired(d) ==
    \/ ~({"description", "type"} \subseteq DOMAIN d)
    \/ /\ d["type"] = "object"
       /\ "properties" \in DOMAIN d
       /\ \E i \in 1..Len(d["properties"]) : LacksRequired(d["properties"][i][2])

AddReturned  == pc = "add_done" /\ raised = "none"
BuildEnded   == pc = "build_done"

---------------------------------------------------------------------------
(* C1: build_configuration_schema, given well-formed descriptors, returns the
   five header lines (the schema line, the title and description lines with
   the block number, "type: object", "properties:") followed by the text of
   add_property(name, descriptor, 1) for each entry in mapping order; an empty
   mapping gives the header alone. *)

RECURSIVE PropertyBlocks(_, _)
PropertyBlocks(props, i) ==
    IF i > Len(props) THEN << >>
    ELSE add_property(props[i][1], props[i][2], 1).value[1] \o PropertyBlocks(props, i + 1)

C1_HeaderThenBlocks ==
    (BuildEnded /\ \A i \in 1..Len(properties) : WellFormed(properties[i][2])) =>
        /\ raised = "none"
        /\ Len(ret) = 1
        /\ LET doc == ret[1]
           IN  /\ Len(doc) >= 5
               /\ doc[1] = "$schema: http://json-schema.org/draft-07/schema#"
               /\ doc[2] = "title: BLOCK-" \o BlockText(block_number) \o " configuration"
               /\ doc[3] = "description: Configuration for BLOCK-"
                             \o BlockText(block_number) \o "."
               /\ doc[4] = "type: object"
               /\ doc[5] = "properties:"
               /\ SubSeq(doc, 6, Len(doc)) = PropertyBlocks(properties, 1)
               /\ properties = << >> => Len(doc) = 5

C1_Witness ==
    /\ BuildEnded /\ raised = "none" /\ block_number = -12
    /\ Len(properties) = 2
    /\ properties[1][1] = "rotation"
    /\ properties[2][2]["type"] = "object"
    /\ Len(ret[1]) > 12

---------------------------------------------------------------------------
(* C2: for an object-typed descriptor with a properties mapping of N entries,
   serialized at indent level L, the lines after its "properties:" line hold
   exactly N nested blocks, each starting with its name line indented
   2 * (L + 2) spaces, in mapping order, and so on inside every nested block. *)

RECURSIVE NestedBlocks(_, _, _)
NestedBlocks(lines, d, L) ==
    IF ~(d["type"] = "object" /\ "properties" \in DOMAIN d) THEN TRUE
    ELSE
      LET props == d["properties"]
          N     == Len(props)
          at    == { k \in 1..Len(lines) : lines[k] = Spaces(2 * L + 2) \o "properties:" }
      IN  /\ Cardinality(at) = 1
          /\ LET k     == CHOOSE k \in at : TRUE
                 heads == Ascending({ j \in (k + 1)..Len(lines) :
                                        IndentOf(lines[j]) = 2 * (L + 2) })
                 end(i) == IF i = N THEN Len(lines) ELSE heads[i + 1] - 1
             IN  /\ Len(heads) = N
                 /\ \A j \in (k + 1)..Len(lines) : IndentOf(lines[j]) >= 2 * (L + 2)
                 /\ k < Len(lines) => heads[1] = k + 1
                 /\ \A i \in 1..N :
                      /\ lines[heads[i]] = Spaces(2 * (L + 2)) \o props[i][1] \o ":"
                      /\ NestedBlocks(SubSeq(lines, heads[i], end(i)), props[i][2], L + 2)

C2_NestedBlocks ==
    AddReturned => NestedBlocks(ret[1], prop_details, indent_level)

C2_Witness ==
    /\ AddReturned /\ indent_level = 1
    /\ prop_details["type"] = "object" /\ "properties" \in DOMAIN prop_details
    /\ Len(prop_details["properties"]) = 2
    /\ prop_details["properties"][1][2]["type"] = "object"
    /\ Len(prop_details["properties"][1][2]["properties"]) = 2

---------------------------------------------------------------------------
(* C3: a descriptor with a default gives exactly one default line among its own
   fields, after the type line; the value is the value's text, in double
   quotes exactly when the type is "string". Without a default there is no
   default line. *)

C3_DefaultLine ==
    AddReturned =>
      LET lines == ret[1]
          own   == { k \in 1..Len(lines) : IndentOf(lines[k]) = 2 * indent_level + 2 }
          dflt  == { k \in own : StartsWith(BodyOf(lines[k]), "default:") }
          typ   == { k \in own : StartsWith(BodyOf(lines[k]), "type:") }
      IN  IF "default" \in DOMAIN prop_details
          THEN /\ Cardinality(dflt) = 1
               /\ \A k \in dflt :
                    LET text  == TextOf(prop_details["default"])
                        value == SubSeq(BodyOf(lines[k]), Len("default: ") + 1,
                                        Len(BodyOf(lines[k])))
                    IN  /\ StartsWith(BodyOf(lines[k]), "default: ")
                        /\ \A t \in typ : t < k
                        /\ typ # {}
                        /\ (StartsWith(value, "\"") /\ EndsWith(value, "\""))
                             <=> prop_details["type"] = "string"
                        /\ prop_details["type"] = "string" => value = "\"" \o text \o "\""
                        /\ prop_details["type"] # "string" => value = text
          ELSE dflt = {}

C3_Witness ==
    /\ AddReturned
    /\ "default" \in DOMAIN prop_details
    /\ prop_details["type"] = "string"
    /\ prop_details["default"] = PyInt(30)
    /\ \E k \in 1..Len(ret[1]) : ret[1][k] = "    default: \"30\""

---------------------------------------------------------------------------
(* C4: an array-typed descriptor with an items block gives an "items:" line,
   then the item's type line, then a minimum line exactly if the item has a
   minimum, then a maximum line exactly if it has a maximum; the item's
   description is nowhere in the text. With any other type the items block
   adds nothing to the text. *)

C4_ItemsBlock ==
    (AddReturned /\ "items" \in DOMAIN prop_details) =>
      LET lines == ret[1]
          ind   == Spaces(2 * indent_level + 2)
          item  == prop_details["items"]
          at    == { k \in 1..Len(lines) : BodyOf(lines[k]) = "items:" }
          deep  == { k \in 1..Len(lines) : IndentOf(lines[k]) > 2 * indent_level + 2 }
          block == << ind \o "items:", ind \o "  type: " \o item["type"] >>
                   \o (IF "minimum" \in DOMAIN item
                       THEN << ind \o "  minimum: " \o TextOf(item["minimum"]) >> ELSE << >>)
                   \o (IF "maximum" \in DOMAIN item
                       THEN << ind \o "  maximum: " \o TextOf(item["maximum"]) >> ELSE << >>)
      IN  IF prop_details["type"] = "array"
          THEN /\ Cardinality(at) = 1
               /\ \A k \in at :
                    /\ k > 3
                    /\ SubSeq(lines, k, Len(lines)) = block
               /\ Cardinality({ k \in deep : StartsWith(BodyOf(lines[k]), "minimum:") })
                    = IF "minimum" \in DOMAIN item THEN 1 ELSE 0
               /\ Cardinality({ k \in deep : StartsWith(BodyOf(lines[k]), "maximum:") })
                    = IF "maximum" \in DOMAIN item THEN 1 ELSE 0
               /\ "description" \in DOMAIN item =>
                    \A k \in 1..Len(lines) : ~Contains(lines[k], item["description"])
          ELSE /\ at = {} /\ deep = {}
               /\ Len(lines) = IF "default" \in DOMAIN prop_details THEN 4 ELSE 3

C4_Witness ==
    /\ AddReturned /\ indent_level = 2
    /\ prop_details["type"] = "array"
    /\ "items" \in DOMAIN prop_details
    /\ {"minimum", "maximum", "description"} \subseteq DOMAIN prop_details["items"]
    /\ "default" \in DOMAIN prop_details
    /\ Len(ret[1]) = 8

---------------------------------------------------------------------------
(* C8: when a descriptor the serialization reaches, at the top or inside an
   object's properties at any depth, lacks description or type, the call ends
   in a KeyError and returns nothing, no partial text either. *)

C8_LookupErrorPropagates ==
    /\ pc = "add_done" =>
         (LacksRequired(prop_details) => raised = "KeyError" /\ ret = << >>)
    /\ BuildEnded =>
         ((\E i \in 1..Len(properties) : LacksRequired(properties[i][2]))
            => raised = "KeyError" /\ ret = << >>)

C8_Witness ==
    /\ BuildEnded /\ raised = "KeyError" /\ ret = << >>
    /\ prop_idx = 2
    /\ Len(configuration_schema) > 5
    /\ {"description", "type"} \subseteq DOMAIN properties[2][2]
    /\ properties[2][2]["type"] = "object"

---------------------------------------------------------------------------
(* Reading the metadata independently of the code: the drawn times as
   milliseconds after T1, and a record's times by the arrays its marker key
   (startUtc, else runQuantumStartCpuTime) selects *)

Instant(t) ==
    CASE t = T1 -> 0
      [] t = T2 -> 14750
      [] t = T3 -> 70250
      [] t = T4 -> 36009750

ArraysOf(v) == v["quantum"].arrays
Marked(v) ==
    "startUtc" \in DOMAIN ArraysOf(v) \/ "runQuantumStartCpuTime" \in DOMAIN ArraysOf(v)
CarriesConventionKeys(v) ==
    \/ {"prepUtc", "endUtc"} \subseteq DOMAIN ArraysOf(v)
    \/ {"runQuantumStartUtc", "runQuantumEndUtc"} \subseteq DOMAIN ArraysOf(v)

Range(f) == { f[i] : i \in DOMAIN f }
EarliestOf(ts) == CHOOSE t \in ts : \A u \in ts : Instant(t) <= Instant(u)
LatestOf(ts)   == CHOOSE t \in ts : \A u \in ts : Instant(u) <= Instant(t)
Greatest(ns)   == CHOOSE n \in ns : \A m \in ns : m <= n

StartOf(v) ==
    EarliestOf(Range(IF "startUtc" \in DOMAIN ArraysOf(v)
                     THEN ArraysOf(v)["prepUtc"] ELSE ArraysOf(v)["runQuantumStartUtc"]))
StopOf(v) ==
    LatestOf(Range(IF "startUtc" \in DOMAIN ArraysOf(v)
                   THEN ArraysOf(v)["endUtc"] ELSE ArraysOf(v)["runQuantumEndUtc"]))
TripleOf(v) == << v.metadata[1], StartOf(v), StopOf(v) >>

\* the records of a list that are not skipped, in order
Kept(vv) == SelectSeq(vv, Marked)
Triples(vv) == [i \in 1..Len(Kept(vv)) |-> TripleOf(Kept(vv)[i])]

RECURSIVE FlatTriples(_, _)
\* the triples of the first n tasks of a mapping, task by task
FlatTriples(m, n) ==
    IF n = 0 THEN << >> ELSE FlatTriples(m, n - 1) \o Triples(m[n][2])

\* the mapping without its skipped records
WithoutSkipped(m) == [i \in 1..Len(m) |-> << m[i][1], Kept(m[i][2]) >>]

EarliestStart(vv) == EarliestOf({ StartOf(v) : v \in Range(vv) })
LatestStop(vv)    == LatestOf({ StopOf(v) : v \in Range(vv) })
LongestDuration(vv) ==
    Greatest({ Instant(StopOf(v)) - Instant(StartOf(v)) : v \in Range(vv) })

TimingEnded == pc = "timing_done"
EmptyTasks  == { i \in 1..Len(task_md) : Kept(task_md[i][2]) = << >> }

---------------------------------------------------------------------------
(* C5, as stated: a record is skipped exactly if it carries neither prepUtc and
   endUtc nor runQuantumStartUtc and runQuantumEndUtc, so that of the records
   of the task seen so far, those carrying such keys are the processed ones. *)

C5_SkippedIffNoConventionKeys ==
    pc = "timing_records" =>
      Len(start_list)
        = Len(SelectSeq(SubSeq(task_md[task_idx][2], 1, rec_idx - 1), CarriesConventionKeys))

(* C5, amended: a record is skipped exactly if its arrays hold neither startUtc
   nor runQuantumStartCpuTime. A record with startUtc is processed with
   start = min(prepUtc) and stop = max(endUtc), any other record with
   runQuantumStartCpuTime with start = min(runQuantumStartUtc) and
   stop = max(runQuantumEndUtc), and its triple is appended to the flat list. *)

C5_SkippedIffNoMarker ==
    pc = "timing_records" =>
      LET seen == SubSeq(task_md[task_idx][2], 1, rec_idx - 1)
          kept == Kept(seen)
      IN  /\ Len(start_list) = Len(kept)
          /\ Len(stop_list) = Len(kept)
          /\ \A i \in 1..Len(kept) :
               /\ start_list[i] = StartOf(kept[i])
               /\ stop_list[i] = StopOf(kept[i])
          /\ Len(jobs) >= Len(kept)
          /\ SubSeq(jobs, Len(jobs) - Len(kept) + 1, Len(jobs)) = Triples(seen)

C5_Witness ==
    /\ pc = "timing_records" /\ rec_idx = 3
    /\ task_md[task_idx][2] = << RecANames, RecBoth >>
    /\ start_list = << T3 >>
    /\ jobs # << >>

---------------------------------------------------------------------------
(* C6: when every task has a record that is not skipped, the call returns, and
   the three per-task lists have one entry per task, in the mapping's order:
   the earliest start, the latest stop and the longest duration of the task's
   records that are not skipped. *)

C6_PerTaskAggregates ==
    (TimingEnded /\ EmptyTasks = {}) =>
      /\ raised = "none"
      /\ Len(ret) = 1
      /\ LET n == Len(task_md)
         IN  /\ Len(ret[1][2]) = n /\ Len(ret[1][3]) = n /\ Len(ret[1][4]) = n
             /\ \A i \in 1..n :
                  LET kept == Kept(task_md[i][2])
                  IN  /\ ret[1][2][i] = EarliestStart(kept)
                      /\ ret[1][3][i] = LatestStop(kept)
                      /\ ret[1][4][i] = LongestDuration(kept)

C6_Witness ==
    /\ TimingEnded /\ raised = "none"
    /\ Len(task_md) = 2
    /\ task_md[2][2] = << RecA2, RecA1 >>
    /\ ret[1][2][2] = T1
    /\ ret[1][3][2] = T4
    /\ ret[1][4] = << 36009750 - 70250, 36009750 - 14750 >>

---------------------------------------------------------------------------
(* C7: a record with neither startUtc nor runQuantumStartCpuTime adds nothing:
   the flat list holds one triple per record that is not skipped, in task
   order then record order, also while the call runs, and the lists returned
   are those of the mapping without its skipped records. *)

C7_SkippedAddsNothing ==
    /\ pc = "timing_records" =>
         jobs = FlatTriples(task_md, task_idx - 1)
                  \o Triples(SubSeq(task_md[task_idx][2], 1, rec_idx - 1))
    /\ (TimingEnded /\ raised = "none") =>
         LET clean == WithoutSkipped(task_md)
         IN  /\ ret[1][1] = FlatTriples(task_md, Len(task_md))
             /\ ret[1][1] = FlatTriples(clean, Len(clean))
             /\ ret[1][2] = [i \in 1..Len(clean) |-> EarliestStart(clean[i][2])]
             /\ ret[1][3] = [i \in 1..Len(clean) |-> LatestStop(clean[i][2])]
             /\ ret[1][4] = [i \in 1..Len(clean) |-> LongestDuration(clean[i][2])]

C7_Witness ==
    /\ TimingEnded /\ raised = "none"
    /\ Len(task_md) = 2
    /\ task_md[1][2] = << RecNoop, RecB1 >>
    /\ task_md[2][2] = << RecA1, RecBNames >>
    /\ ret[1][1] = << << "calcZernikesTask", T3, T4 >>, << "isr", T1, T3 >> >>

---------------------------------------------------------------------------
(* C10: when a task has no record that is not skipped, the call ends in the
   ValueError of min over that task's empty start list, at the first such
   task: nothing is returned, whatever was gathered for the tasks before it,
   and no later task is taken up. *)

C10_EmptyTaskFails ==
    (TimingEnded /\ EmptyTasks # {}) =>
      LET f == CHOOSE i \in EmptyTasks : \A j \in EmptyTasks : i <= j
      IN  /\ raised = "ValueError"
          /\ ret = << >>
          /\ task_idx = f
          /\ start_list = << >>
          /\ Len(stdout) = f
          /\ Len(first_job) = f - 1

C10_Witness ==
    /\ TimingEnded /\ raised = "ValueError" /\ ret = << >>
    /\ Len(task_md) = 3
    /\ task_idx = 2
    /\ task_md[2][2] = << RecNoop, RecANames >>
    /\ first_job = << T3 >>
    /\ jobs # << >>
    /\ Len(stdout) = 2

---------------------------------------------------------------------------
(* C9: get_task_metadata issues its gets one after the other in task, then
   visit, then detector order, each for "<task>_metadata" and its visit and
   detector; a get that fails is the last one issued and ends the call with
   nothing returned; otherwise the mapping returned has one entry per task
   name of task_list, holding len(visit_list) * len(detector_list) datasets,
   the one at position i * len(detector_list) + j (from 0) being that of
   visit i and detector j. *)

C9_FetchOrderAndResult ==
    LET V == Len(visit_list)
        D == Len(detector_list)
        total == Len(task_list) * V * D
        \* the k-th get, from 0, of the whole call
        taskAt(k)  == task_list[k \div (V * D) + 1]
        visitAt(k) == visit_list[(k % (V * D)) \div D + 1]
        detAt(k)   == detector_list[(k % D) + 1]
        stored(t, v, d) ==
            [stored |-> [datasetType |-> t \o "_metadata", exposure |-> v, visit |-> v,
                         detector |-> d, collections |-> "u/aos/wep_run"]]
    IN  /\ Len(fetches) <= total
        /\ \A k \in 1..Len(fetches) :
             /\ fetches[k].args = stored(taskAt(k - 1), visitAt(k - 1), detAt(k - 1)).stored
             /\ k < Len(fetches) => fetches[k].ok
        /\ (\E k \in 1..Len(fetches) : ~fetches[k].ok) =>
             pc = "fetch_done" /\ raised = "DatasetNotFoundError"
        /\ (pc = "fetch_done" /\ raised # "none") => ret = << >>
        /\ (pc = "fetch_done" /\ raised = "none") =>
             /\ Len(fetches) = total
             /\ Len(ret) = 1
             /\ { ret[1][n][1] : n \in 1..Len(ret[1]) } = { task_list[i] : i \in 1..Len(task_list) }
             /\ \A n, m \in 1..Len(ret[1]) : ret[1][n][1] = ret[1][m][1] => n = m
             /\ \A n \in 1..Len(ret[1]) :
                  /\ Len(ret[1][n][2]) = V * D
                  /\ \A i \in 0..(V - 1), j \in 0..(D - 1) :
                       ret[1][n][2][i * D + j + 1]
                         = stored(ret[1][n][1], visit_list[i + 1], detector_list[j + 1])

C9_Witness ==
    /\ pc = "fetch_done" /\ raised = "none"
    /\ task_list = << "calcZernikesTask", "isr" >>
    /\ visit_list = << 4021, 4022 >>
    /\ detector_list = << 192, 191 >>
    /\ Len(fetches) = 8
    /\ Len(ret[1]) = 2

=============================================================================
